---- MODULE Spec2Model ----
(***************************************************************************)
(* TravelWithGhost backend: the serializers of backend/trips/serializers.py *)
(* and the data migration trips/migrations/0003_add_goa_destination.py.     *)
(*                                                                         *)
(* Python values are tagged records, so that None, "", 0 and a file-less    *)
(* FieldFile stay distinct values with Python's truthiness.  A Python str is *)
(* a sequence of one-character strings, so that split, replace, capitalize  *)
(* and join are computed as Python computes them.                           *)
(***************************************************************************)
EXTENDS Integers, Sequences, FiniteSets, TLC

VARIABLES
    \* ---- serialization (UserSerializer, CitySerializer)
    email,          \* obj.email of the User being serialized
    profile,        \* the Profile row of that user, or NoProfile
    request,        \* self.context.get('request')
    city,           \* the City row being serialized
    result,         \* what the serializer method returned
    \* ---- registration (RegisterSerializer)
    users,          \* auth_user table
    profiles,       \* trips_profile table
    regPc,          \* position of the registration request in flight
    attrs,          \* the payload of the registration request in flight
    regUser,        \* id of the local `user` of RegisterSerializer.create, 0 before
    regResponse,    \* outcome of the last finished registration request
    usersBefore,    \* auth_user as it was when the request in flight began
    profilesBefore, \* trips_profile as it was when the request began
    registered,     \* ids of the User rows inserted by RegisterSerializer.create
    returned,       \* ids of the User rows whose create() call returned
    \* ---- trip creation (TripCreateSerializer)
    trips,          \* trips_trip table
    itineraryRows,  \* trips_tripitinerary table, in insertion order
    tripPc,         \* position of the trip-creation request in flight
    validated_data, \* the validated payload of the request in flight
    requestUser,    \* self.context['request'].user of the request in flight
    trip,           \* id of the local `trip` of TripCreateSerializer.create, 0 before
    itemIndex,      \* position of the for loop over itinerary_data
    tripResponse,   \* outcome of the last finished trip-creation request
    payloadOf,      \* trip id -> the itinerary list of the request that made it
    requesterOf,    \* trip id -> the user of the request that made it
    \* ---- seed migration (0003_add_goa_destination)
    cities,         \* trips_city table
    files,          \* names present in the media storage
    sourceImage,    \* whether media/Goa.jpg exists
    migPc,          \* position of the migration function being applied
    migCity,        \* id of the local `city` of add_goa_destination, 0 before
    lastOp,         \* the last migration function that ran to its end
    citiesBefore,   \* trips_city as it was when the last function began
    filesBefore,    \* the media storage as it was when the last function began
    initialGoa      \* number of rows named Goa in the initial City table

serVars == <<email, profile, request, city, result>>
regVars == <<users, profiles, regPc, attrs, regUser, regResponse,
             usersBefore, profilesBefore, registered, returned>>
tripVars == <<trips, itineraryRows, tripPc, validated_data, requestUser, trip,
              itemIndex, tripResponse, payloadOf, requesterOf>>
migVars == <<cities, files, sourceImage, migPc, migCity, lastOp,
             citiesBefore, filesBefore, initialGoa>>
vars == <<serVars, regVars, tripVars, migVars>>

-----------------------------------------------------------------------------
(* Python values *)

None == [t |-> "none"]
Str(s) == [t |-> "str", v |-> s]
PyInt(n) == [t |-> "int", v |-> n]
FieldFile(name) == [t |-> "file", v |-> name]
Url(host, path) == [t |-> "url", host |-> host, path |-> path]

\* Python's truth value testing: None, "", 0 and a FieldFile without a name
\* are false.
Truthy(x) ==
    CASE x.t = "none" -> FALSE
      [] x.t = "str"  -> x.v # <<>>
      [] x.t = "int"  -> x.v # 0
      [] x.t = "file" -> x.v # ""
      [] OTHER        -> TRUE

\* `a or b` and `a and b` return one of their operands.
PyOr(a, b) == IF Truthy(a) THEN a ELSE b
PyAnd(a, b) == IF Truthy(a) THEN b ELSE a

-----------------------------------------------------------------------------
(* Python str methods used by format_email_to_name *)

LowerCase == <<"a","b","c","d","e","f","g","h","i","j","k","l","m",
               "n","o","p","q","r","s","t","u","v","w","x","y","z">>
UpperCase == <<"A","B","C","D","E","F","G","H","I","J","K","L","M",
               "N","O","P","Q","R","S","T","U","V","W","X","Y","Z">>
Whitespace == {" ", "\t", "\n"}

ToUpper(c) ==
    IF \E i \in 1..Len(LowerCase) : LowerCase[i] = c
    THEN UpperCase[CHOOSE i \in 1..Len(LowerCase) : LowerCase[i] = c]
    ELSE c

ToLower(c) ==
    IF \E i \in 1..Len(UpperCase) : UpperCase[i] = c
    THEN LowerCase[CHOOSE i \in 1..Len(UpperCase) : UpperCase[i] = c]
    ELSE c

\* s.split(sep)[0]
RECURSIVE SplitFirst(_, _)
SplitFirst(s, sep) ==
    IF s = <<>> \/ Head(s) = sep THEN <<>>
    ELSE <<Head(s)>> \o SplitFirst(Tail(s), sep)

\* s.replace(old, new) for one-character old and new
Replace(s, old, new) == [i \in 1..Len(s) |-> IF s[i] = old THEN new ELSE s[i]]

\* s.split(): the maximal runs of non-whitespace characters
RECURSIVE SplitWords(_, _)
SplitWords(s, word) ==
    IF s = <<>> THEN (IF word = <<>> THEN <<>> ELSE <<word>>)
    ELSE IF Head(s) \in Whitespace
         THEN (IF word = <<>> THEN <<>> ELSE <<word>>) \o SplitWords(Tail(s), <<>>)
         ELSE SplitWords(Tail(s), Append(word, Head(s)))
Split(s) == SplitWords(s, <<>>)

\* word.capitalize(): first character upper-cased, the rest lower-cased
Capitalize(word) ==
    [i \in 1..Len(word) |-> IF i = 1 THEN ToUpper(word[i]) ELSE ToLower(word[i])]

\* sep.join(words)
RECURSIVE Join(_, _)
Join(sep, words) ==
    IF words = <<>> THEN <<>>
    ELSE IF Len(words) = 1 THEN words[1]
    ELSE words[1] \o sep \o Join(sep, Tail(words))

AnonymousTraveler ==
    <<"A","n","o","n","y","m","o","u","s"," ","T","r","a","v","e","l","e","r">>
LocationNotSet ==
    <<"L","o","c","a","t","i","o","n"," ","n","o","t"," ","s","e","t">>
Adventurer == <<"A","d","v","e","n","t","u","r","e","r">>

\* format_email_to_name without the replacement of underscores
format_email_to_name_DotsOnly(e) ==
    IF ~Truthy(e) THEN Str(AnonymousTraveler)
    ELSE LET local == SplitFirst(e.v, "@")
             spaced == Replace(local, ".", " ")
             words == Split(spaced)
         IN Str(Join(<<" ">>, [i \in 1..Len(words) |-> Capitalize(words[i])]))

\* UserSerializer.format_email_to_name
format_email_to_name(e) ==
    IF ~Truthy(e) THEN Str(AnonymousTraveler)
    ELSE LET local == SplitFirst(e.v, "@")
             spaced == Replace(Replace(local, ".", " "), "_", " ")
             words == Split(spaced)
         IN Str(Join(<<" ">>, [i \in 1..Len(words) |-> Capitalize(words[i])]))

-----------------------------------------------------------------------------
(* UserSerializer.get_profile and CitySerializer.get_image *)

NoProfile == [t |-> "DoesNotExist"]
NoRequest == None
Request(host) == [t |-> "request", host |-> host]

\* FieldFile.url with the default file-system storage: MEDIA_URL + name
FileUrl(f) == Url("", f.v)

\* request.build_absolute_uri(location): a location that already has a host
\* is returned as it is
build_absolute_uri(req, location) ==
    IF location.host # "" THEN location ELSE Url(req.host, location.path)

photos_url(p, req) ==
    IF Truthy(p.photos)
    THEN (IF req # None THEN build_absolute_uri(req, FileUrl(p.photos))
          ELSE FileUrl(p.photos))
    ELSE None

display_name(p, e) == IF Truthy(p.name) THEN p.name ELSE format_email_to_name(e)

\* is_profile_complete without the test of the age
is_profile_complete_NoAge(p) ==
    Truthy(PyAnd(PyAnd(p.name, p.current_location), p.gender))

\* the 'is_profile_complete' entry of get_profile
is_profile_complete(p) ==
    Truthy(PyAnd(PyAnd(PyAnd(p.name, p.current_location), p.age), p.gender))

get_profile(e, p, req) ==
    IF p # NoProfile
    THEN [name |-> display_name(p, e),
          current_location |-> PyOr(p.current_location, Str(LocationNotSet)),
          age |-> PyOr(p.age, None),
          gender |-> PyOr(p.gender, None),
          profession |-> PyOr(p.profession, Str(Adventurer)),
          photos |-> photos_url(p, req),
          is_profile_complete |-> is_profile_complete(p)]
    ELSE [name |-> format_email_to_name(e),
          current_location |-> Str(LocationNotSet),
          age |-> None,
          gender |-> None,
          profession |-> Str(Adventurer),
          photos |-> None,
          is_profile_complete |-> FALSE]

get_image(c) == IF Truthy(c.image) THEN FileUrl(c.image) ELSE None

-----------------------------------------------------------------------------
(* Bounds of the inputs *)

MaxEmailLen == 4        \* longest generated email, in characters
MaxUsers == 2           \* User rows a run may insert
MaxTrips == 1           \* Trip rows a run may insert
MaxItems == 2           \* longest itinerary list of a payload
MaxFiles == 3           \* files the media storage may hold in a run

SeqsUpTo(S, n) == UNION {[1..k -> S] : k \in 0..n}

EmailChars == {"a", "B", ".", "_", "@", " "}
JaneDoeSmith ==
    <<"j","a","n","e",".","d","o","e","_","s","m","i","t","h","@","x",".","c","o","m">>
Emails ==
    {None, Str(JaneDoeSmith)} \cup {Str(s) : s \in SeqsUpTo(EmailChars, MaxEmailLen)}
FewEmails == {None, Str(<<>>), Str(<<"_", "@", "a">>), Str(<<"a", ".", "B", "@">>)}

Names == {Str(<<>>), Str(<<"R", "a", "j">>)}
Locations == {Str(<<>>), Str(<<"P", "u", "n", "e">>)}
Ages == {None, PyInt(0), PyInt(30)}
Genders == {Str(<<>>), Str(<<"F">>)}
Professions == {Str(<<>>), Str(<<"G", "u", "i", "d", "e">>)}
Photos == {FieldFile(""), FieldFile("/media/profile_photos/raj.jpg")}

Profiles ==
    [t : {"profile"}, name : Names, current_location : Locations, age : Ages,
     gender : Genders, profession : Professions, photos : Photos]

\* the row RegisterSerializer.create inserts, and a filled-in one
EmptyProfile ==
    [t |-> "profile", name |-> Str(<<>>), current_location |-> Str(<<>>),
     age |-> PyInt(0), gender |-> Str(<<>>), profession |-> Str(<<>>),
     photos |-> FieldFile("")]
FullProfile ==
    [t |-> "profile", name |-> Str(<<"R", "a", "j">>),
     current_location |-> Str(<<"P", "u", "n", "e">>), age |-> PyInt(30),
     gender |-> Str(<<"F">>), profession |-> Str(<<"G", "u", "i", "d", "e">>),
     photos |-> FieldFile("/media/profile_photos/raj.jpg")]
FewProfiles == {NoProfile, EmptyProfile, FullProfile}

Requests == {NoRequest, Request("http://testserver")}
CityRows ==
    {[id |-> 1, name |-> "Goa", image |-> FieldFile("")],
     [id |-> 2, name |-> "Goa", image |-> FieldFile("/media/Goa.jpg")]}

-----------------------------------------------------------------------------
(* The state in which a component has not run *)

SerIdle ==
    /\ email = None /\ profile = NoProfile /\ request = NoRequest
    /\ city = [id |-> 1, name |-> "Goa", image |-> FieldFile("")]
    /\ result = [op |-> "none"]

RegIdle ==
    /\ users = {} /\ profiles = {} /\ regPc = "idle" /\ attrs = None
    /\ regUser = 0 /\ regResponse = "none"
    /\ usersBefore = {} /\ profilesBefore = {}
    /\ registered = {} /\ returned = {}

TripIdle ==
    /\ trips = {} /\ itineraryRows = <<>> /\ tripPc = "idle"
    /\ validated_data = None /\ requestUser = "" /\ trip = 0
    /\ itemIndex = 0 /\ tripResponse = "none"
    /\ payloadOf = <<>> /\ requesterOf = <<>>

MigIdle ==
    /\ cities = {} /\ files = {} /\ sourceImage = FALSE /\ migPc = "idle"
    /\ migCity = 0 /\ lastOp = "none"
    /\ citiesBefore = {} /\ filesBefore = {} /\ initialGoa = 0

-----------------------------------------------------------------------------
(* Serialization of one user and of one city *)

SerInit ==
    /\ \/ email \in Emails /\ profile \in FewProfiles
       \/ email \in FewEmails /\ profile \in Profiles
    /\ request \in Requests
    /\ city \in CityRows
    /\ result = [op |-> "none"]
    /\ RegIdle /\ TripIdle /\ MigIdle

\* UserSerializer(user, context).data['profile']
GetProfile ==
    /\ result.op = "none"
    /\ result' = [op |-> "get_profile", data |-> get_profile(email, profile, request)]
    /\ UNCHANGED <<email, profile, request, city, regVars, tripVars, migVars>>

\* CitySerializer(city, context).data['image']
GetImage ==
    /\ result.op = "none"
    /\ result' = [op |-> "get_image", data |-> get_image(city)]
    /\ UNCHANGED <<email, profile, request, city, regVars, tripVars, migVars>>

SerNext == GetProfile \/ GetImage
SerSpec == SerInit /\ [][SerNext]_vars

-----------------------------------------------------------------------------
(* Properties of the serializers *)

Separators == {".", "_"} \cup Whitespace

\* The characters of an email before its first "@" (all of it when it has none)
LocalPart(s) ==
    LET ats == {i \in 1..Len(s) : s[i] = "@"}
        end == IF ats = {} THEN Len(s)
               ELSE (CHOOSE i \in ats : \A j \in ats : i <= j) - 1
    IN SubSeq(s, 1, end)

\* The words of the local part, each capitalized, one space between them:
\* character i starts a word when it is no separator and follows one (or
\* nothing); a word's first letter is upper case, its other letters lower case.
RECURSIVE DerivedFrom(_, _, _)
DerivedFrom(s, i, acc) ==
    IF i > Len(s) THEN acc
    ELSE IF s[i] \in Separators THEN DerivedFrom(s, i + 1, acc)
    ELSE IF i > 1 /\ s[i - 1] \notin Separators
         THEN DerivedFrom(s, i + 1, Append(acc, ToLower(s[i])))
         ELSE DerivedFrom(s, i + 1,
                  (IF acc = <<>> THEN <<>> ELSE Append(acc, " ")) \o <<ToUpper(s[i])>>)
DerivedName(s) == DerivedFrom(s, 1, <<>>)

NoContent(s) == \A i \in 1..Len(s) : s[i] \in Separators

NameIsDerived == profile = NoProfile \/ profile.name \in {None, Str(<<>>)}

\* C6: when the display name is derived from the email and the email's local
\* part is empty or made only of '.', '_' and whitespace, the name is exactly
\* "Anonymous Traveler".
C6_NoLocalPartGivesPlaceholder ==
    (/\ result.op = "get_profile"
     /\ NameIsDerived
     /\ email # None
     /\ NoContent(LocalPart(email.v)))
    => result.data.name = Str(AnonymousTraveler)

JaneDoeSmithName ==
    <<"J","a","n","e"," ","D","o","e"," ","S","m","i","t","h">>

C8_CompleteIffAllSet ==
    result.op = "get_profile" =>
        /\ result.data.is_profile_complete = TRUE <=>
               /\ profile # NoProfile
               /\ profile.name \notin {None, Str(<<>>)}
               /\ profile.current_location \notin {None, Str(<<>>)}
               /\ profile.age \notin {None, PyInt(0)}
               /\ profile.gender \notin {None, Str(<<>>)}
        /\ (\/ NameIsDerived
            \/ profile.current_location \in {None, Str(<<>>)})
               => result.data.is_profile_complete = FALSE
        /\ profile = EmptyProfile => result.data.is_profile_complete = FALSE

C8_Witness ==
    /\ result.op = "get_profile"
    /\ profile = FullProfile
    /\ result.data.is_profile_complete = TRUE

\* The URL the spec describes for an attached file: absolute, built from the
\* request, when the context has a request; the storage's URL otherwise; None
\* when no file is attached.
ExposedUrl(file, req) ==
    IF file.v = "" THEN None
    ELSE IF req # NoRequest THEN Url(req.host, file.v)
    ELSE Url("", file.v)

\* C9: City.image and Profile.photos are emitted as the absolute URI built
\* from the request when the serializer context contains a request, as the
\* storage-relative URL when it does not, and as None when no file is attached.
C9_MediaUrlsAbsoluteWithRequest ==
    /\ result.op = "get_image" => result.data = ExposedUrl(city.image, request)
    /\ (result.op = "get_profile" /\ profile # NoProfile)
           => result.data.photos = ExposedUrl(profile.photos, request)

-----------------------------------------------------------------------------
(* Registration: RegisterSerializer behind is_valid() and save() *)

Usernames == {"asha", "ravi"}
RegEmails == {"asha@x.com"}
WeakPasswords == {"12345"}
Passwords == {"tr4vel-gh0st", "an0ther-pass"} \cup WeakPasswords
Payloads ==
    [username : Usernames, email : RegEmails,
     password1 : Passwords, password2 : Passwords]

\* a User row that was not made by registration (createsuperuser)
AdminUser == [id |-> 1, username |-> "admin", email |-> "", password |-> "adm1n-pass"]

NextId(rows) ==
    IF rows = {} THEN 1
    ELSE 1 + (CHOOSE n \in {r.id : r \in rows} : \A r \in rows : r.id <= n)

\* django.contrib.auth.password_validation.validate_password, the validator
\* of password1: TRUE when the password passes
validate_password(password) == password \notin WeakPasswords

\* the validators the fields of RegisterSerializer carry: validate_password
\* on password1 and the uniqueness of User.username
FieldsValid(a) ==
    /\ validate_password(a.password1)
    /\ \A u \in users : u.username # a.username

\* validate that accepts any pair of passwords
validate_NoCheck(a) == TRUE

\* RegisterSerializer.validate: TRUE when attrs are returned, FALSE when
\* ValidationError is raised
validate(a) == a.password1 = a.password2

\* the row of User.objects.create_user
NewUser(id, data) ==
    [id |-> id, username |-> data.username, email |-> data.email,
     password |-> data.password1]

\* the profile row with no age
NewProfile_AgeNone(id, user) ==
    [id |-> id, user |-> user, name |-> Str(<<>>), current_location |-> Str(<<>>),
     age |-> None, gender |-> Str(<<>>)]

\* the row of Profile.objects.create in RegisterSerializer.create
NewProfile(id, user) ==
    [id |-> id, user |-> user, name |-> Str(<<>>), current_location |-> Str(<<>>),
     age |-> PyInt(0), gender |-> Str(<<>>)]

RegInit ==
    /\ users \in {{}, {AdminUser}}
    /\ profiles = {}
    /\ regPc = "idle" /\ attrs = None /\ regUser = 0 /\ regResponse = "none"
    /\ usersBefore = users /\ profilesBefore = {}
    /\ registered = {} /\ returned = {}
    /\ SerIdle /\ TripIdle /\ MigIdle

\* a registration request arrives
RegSubmit ==
    /\ regPc = "idle"
    /\ Cardinality(registered) < MaxUsers
    /\ \E a \in Payloads : attrs' = a
    /\ regPc' = "run_validation"
    /\ regUser' = 0
    /\ regResponse' = "none"
    /\ usersBefore' = users
    /\ profilesBefore' = profiles
    /\ UNCHANGED <<users, profiles, registered, returned, serVars, tripVars, migVars>>

RegFail(response) ==
    /\ regPc' = "idle"
    /\ regResponse' = response

\* is_valid(): the field validators run before validate()
RegFieldValidation ==
    /\ regPc = "run_validation"
    /\ IF FieldsValid(attrs)
       THEN regPc' = "validate" /\ UNCHANGED regResponse
       ELSE RegFail("validation_error")
    /\ UNCHANGED <<users, profiles, attrs, regUser, usersBefore, profilesBefore,
                   registered, returned, serVars, tripVars, migVars>>

\* is_valid(): RegisterSerializer.validate
RegValidate ==
    /\ regPc = "validate"
    /\ IF validate(attrs)
       THEN regPc' = "create_user" /\ UNCHANGED regResponse
       ELSE RegFail("validation_error")
    /\ UNCHANGED <<users, profiles, attrs, regUser, usersBefore, profilesBefore,
                   registered, returned, serVars, tripVars, migVars>>

\* save(): RegisterSerializer.create, User.objects.create_user
RegCreateUser ==
    /\ regPc = "create_user"
    /\ \/ /\ users' = users \cup {NewUser(NextId(users), attrs)}
          /\ regUser' = NextId(users)
          /\ registered' = registered \cup {NextId(users)}
          /\ regPc' = "create_profile"
          /\ UNCHANGED regResponse
       \/ \* the insert raises
          /\ RegFail("server_error")
          /\ UNCHANGED <<users, regUser, registered>>
    /\ UNCHANGED <<profiles, attrs, usersBefore, profilesBefore, returned,
                   serVars, tripVars, migVars>>

\* save(): RegisterSerializer.create, Profile.objects.create and return user
RegCreateProfile ==
    /\ regPc = "create_profile"
    /\ \/ /\ profiles' = profiles \cup {NewProfile(NextId(profiles), regUser)}
          /\ returned' = returned \cup {regUser}
          /\ RegFail("created")
       \/ \* the insert raises; the User row stays, nothing rolls it back
          /\ RegFail("server_error")
          /\ UNCHANGED <<profiles, returned>>
    /\ UNCHANGED <<users, attrs, regUser, usersBefore, profilesBefore, registered,
                   serVars, tripVars, migVars>>

RegNext == RegSubmit \/ RegFieldValidation \/ RegValidate \/ RegCreateUser \/ RegCreateProfile
RegSpec == RegInit /\ [][RegNext]_vars

ProfilesOf(u) == {p \in profiles : p.user = u}
IsEmptyProfile(p) ==
    /\ p.name = Str(<<>>) /\ p.current_location = Str(<<>>)
    /\ p.age = PyInt(0) /\ p.gender = Str(<<>>)

\* C1: a registration request whose two password fields differ fails with a
\* validation error, never reaches create, and leaves the User and Profile
\* tables as they were before the request.
C1_MismatchCreatesNothing ==
    (attrs # None /\ attrs.password1 # attrs.password2) =>
        /\ regPc \notin {"create_user", "create_profile"}
        /\ users = usersBefore
        /\ profiles = profilesBefore
        /\ regPc = "idle" => regResponse = "validation_error"

C1_Witness ==
    /\ regPc = "idle" /\ attrs # None
    /\ attrs.password1 # attrs.password2
    /\ attrs.password1 \notin WeakPasswords
    /\ regResponse = "validation_error"
    /\ registered # {}

\* C2 as stated: after any sequence of registration requests, storage
\* failures included, every User row created by RegisterSerializer.create has
\* exactly one Profile row, and that row is empty (name "", location "",
\* age 0, gender "").
C2_EveryCreatedUserHasProfile ==
    regPc = "idle" =>
        \A u \in registered :
            /\ Cardinality(ProfilesOf(u)) = 1
            /\ \A p \in ProfilesOf(u) : IsEmptyProfile(p)

\* C2 amended: every User row created by a create call that returned has
\* exactly one Profile row, and that row is empty; a User row whose create
\* call has not returned (the Profile insert is still to come, or it failed
\* and nothing rolled the user back) has no Profile row.
C2_ReturnedUserHasEmptyProfile ==
    \A u \in registered :
        /\ u \in returned =>
               /\ Cardinality(ProfilesOf(u)) = 1
               /\ \A p \in ProfilesOf(u) : IsEmptyProfile(p)
        /\ u \notin returned => ProfilesOf(u) = {}

C2_Witness ==
    /\ regPc = "idle" /\ regResponse = "created"
    /\ regUser \in returned
    /\ Cardinality(ProfilesOf(regUser)) = 1
    /\ \E u \in registered : u \notin returned

-----------------------------------------------------------------------------
(* Trip creation: TripCreateSerializer.create behind save() *)

\* The entries the itinerary field accepts: ListField(child=DictField())
\* takes any dictionary, with or without the keys 'day' and 'description'.
Items ==
    {[day |-> 1, description |-> "Beach"],
     [day |-> 2, description |-> "Fort"],
     [description |-> "No day given"],
     [day |-> 3]}
Itineraries == SeqsUpTo(Items, MaxItems)
TripPayloads ==
    [t : {"dict"}, group_name : {"Goa gang"}, destination : {1},
     itinerary : Itineraries]

\* the trip row without a host
NewTrip_NoHost(id, host, data) ==
    [id |-> id, host |-> "", group_name |-> data.group_name,
     destination |-> data.destination]

\* the row of Trip.objects.create(**validated_data), after the pop of
\* 'itinerary' and the assignment of 'host'
NewTrip(id, host, data) ==
    [id |-> id, host |-> host, group_name |-> data.group_name,
     destination |-> data.destination]

\* the loop taking the entries last to first
ItemAt_Reversed(itinerary_data, i) == itinerary_data[Len(itinerary_data) + 1 - i]

\* the entry the i-th iteration of `for item in itinerary_data` handles
ItemAt(itinerary_data, i) == itinerary_data[i]

\* item['day'] and item['description'] raise KeyError on a missing key
HasKeys(item) == "day" \in DOMAIN item /\ "description" \in DOMAIN item

\* the row of TripItinerary.objects.create
NewItineraryRow(tripId, item) ==
    [trip |-> tripId, day |-> item.day, description |-> item.description]

TripInit == TripIdle /\ SerIdle /\ RegIdle /\ MigIdle

\* a trip-creation request with a valid payload arrives
TripSubmit ==
    /\ tripPc = "idle"
    /\ Cardinality(trips) < MaxTrips
    /\ \E d \in TripPayloads : validated_data' = d
    /\ \E u \in Usernames : requestUser' = u
    /\ tripPc' = "create_trip"
    /\ trip' = 0
    /\ itemIndex' = 0
    /\ tripResponse' = "none"
    /\ UNCHANGED <<trips, itineraryRows, payloadOf, requesterOf,
                   serVars, regVars, migVars>>

TripFail(response) ==
    /\ tripPc' = "idle"
    /\ tripResponse' = response

\* create: pop the itinerary, set the host, Trip.objects.create
TripCreateTrip ==
    /\ tripPc = "create_trip"
    /\ \/ /\ trips' = trips \cup {NewTrip(NextId(trips), requestUser, validated_data)}
          /\ trip' = NextId(trips)
          /\ payloadOf' = Append(payloadOf, validated_data.itinerary)
          /\ requesterOf' = Append(requesterOf, requestUser)
          /\ itemIndex' = 1
          /\ tripPc' = "for_item"
          /\ UNCHANGED tripResponse
       \/ \* the insert raises
          /\ TripFail("storage_error")
          /\ UNCHANGED <<trips, trip, payloadOf, requesterOf, itemIndex>>
    /\ UNCHANGED <<itineraryRows, validated_data, requestUser,
                   serVars, regVars, migVars>>

\* create: one iteration of the loop over itinerary_data
TripCreateItem ==
    /\ tripPc = "for_item"
    /\ itemIndex <= Len(validated_data.itinerary)
    /\ LET item == ItemAt(validated_data.itinerary, itemIndex) IN
       IF ~HasKeys(item)
       THEN \* KeyError; the trip and the rows made so far stay
            /\ TripFail("key_error")
            /\ UNCHANGED <<itineraryRows, itemIndex>>
       ELSE \/ /\ itineraryRows' = Append(itineraryRows, NewItineraryRow(trip, item))
               /\ itemIndex' = itemIndex + 1
               /\ UNCHANGED <<tripPc, tripResponse>>
            \/ \* the insert raises; the trip and the rows made so far stay
               /\ TripFail("storage_error")
               /\ UNCHANGED <<itineraryRows, itemIndex>>
    /\ UNCHANGED <<trips, validated_data, requestUser, trip, payloadOf, requesterOf,
                   serVars, regVars, migVars>>

\* create: the loop is over, return trip
TripReturn ==
    /\ tripPc = "for_item"
    /\ itemIndex > Len(validated_data.itinerary)
    /\ TripFail("created")
    /\ UNCHANGED <<trips, itineraryRows, validated_data, requestUser, trip,
                   itemIndex, payloadOf, requesterOf, serVars, regVars, migVars>>

TripNext == TripSubmit \/ TripCreateTrip \/ TripCreateItem \/ TripReturn
TripSpec == TripInit /\ [][TripNext]_vars

RowsOf(tripId) == SelectSeq(itineraryRows, LAMBDA r : r.trip = tripId)
SameEntry(row, item) ==
    /\ DOMAIN item = {"day", "description"}
    /\ row.day = item.day
    /\ row.description = item.description

\* C3: once create has persisted a Trip row for a validated payload with N
\* itinerary entries, the trip has the requesting user as host and exactly N
\* TripItinerary rows, one per payload entry with that entry's day and
\* description.  Stated for the requests that met no storage failure.
C3_NEntriesGiveNRows ==
    (tripPc = "idle" /\ trip # 0 /\ tripResponse # "storage_error") =>
        /\ \E t \in trips : t.id = trip /\ t.host = requestUser
        /\ Len(RowsOf(trip)) = Len(validated_data.itinerary)
        /\ \A i \in 1..Len(RowsOf(trip)) :
               SameEntry(RowsOf(trip)[i], validated_data.itinerary[i])

\* C10: in every state of trip creation, the one left by a failure partway
\* included, every persisted TripItinerary row references a persisted Trip
\* whose host is the user of the request that made it, and the rows of a
\* trip are, in order, a prefix of the itinerary list of its payload.
C10_RowsArePrefixOfPayload ==
    /\ \A i \in 1..Len(itineraryRows) :
           \E t \in trips : /\ t.id = itineraryRows[i].trip
                            /\ t.host = requesterOf[t.id]
    /\ \A t \in trips :
           /\ t.host = requesterOf[t.id]
           /\ Len(RowsOf(t.id)) <= Len(payloadOf[t.id])
           /\ \A i \in 1..Len(RowsOf(t.id)) :
                  SameEntry(RowsOf(t.id)[i], payloadOf[t.id][i])

C10_Witness ==
    /\ tripPc = "idle" /\ tripResponse = "storage_error"
    /\ trip # 0
    /\ Len(RowsOf(trip)) = 1
    /\ Len(validated_data.itinerary) = 2
    /\ validated_data.itinerary[1] # validated_data.itinerary[2]
    /\ RowsOf(trip)[1] = NewItineraryRow(trip, validated_data.itinerary[1])

-----------------------------------------------------------------------------
(* Seed migration: add_goa_destination and remove_goa_destination *)

InitialCityRows ==
    {[id |-> 1, name |-> "Delhi", image |-> FieldFile("")],
     [id |-> 2, name |-> "Goa", image |-> FieldFile("")],
     [id |-> 3, name |-> "Goa", image |-> FieldFile("Goa.jpg")],
     [id |-> 4, name |-> "Manali", image |-> FieldFile("Manali.jpg")]}

\* Storage.get_available_name: the name asked for, or the name with a suffix
\* when it is taken
StorageNames ==
    <<"Goa.jpg", "Goa_1.jpg", "Goa_2.jpg", "Goa_3.jpg", "Goa_4.jpg", "Goa_5.jpg">>
AvailableName(stored) ==
    StorageNames[CHOOSE i \in 1..Len(StorageNames) :
                     /\ StorageNames[i] \notin stored
                     /\ \A j \in 1..(i - 1) : StorageNames[j] \in stored]

\* a check that never finds the row
GoaExists_Never(rows) == FALSE

\* City.objects.filter(name='Goa').exists()
GoaExists(rows) == \E c \in rows : c.name = "Goa"

\* a delete without the filter
DeleteNamed_All(rows, name) == {}

\* City.objects.filter(name=name).delete(): the table that is left
DeleteNamed(rows, name) == {c \in rows : c.name # name}

GoaCount(rows) == Cardinality({c \in rows : c.name = "Goa"})

MigInit ==
    /\ cities \in SUBSET InitialCityRows
    /\ files = {c.image.v : c \in {r \in cities : r.image.v # ""}}
    /\ sourceImage \in BOOLEAN
    /\ migPc = "idle" /\ migCity = 0 /\ lastOp = "none"
    /\ citiesBefore = cities /\ filesBefore = files
    /\ initialGoa = GoaCount(cities)
    /\ SerIdle /\ RegIdle /\ TripIdle

MigFinish(op) ==
    /\ migPc' = "idle"
    /\ lastOp' = op

\* migrate forward: add_goa_destination is called
MigForward ==
    /\ migPc = "idle"
    /\ Cardinality(files) < MaxFiles
    /\ migPc' = "check"
    /\ migCity' = 0
    /\ citiesBefore' = cities
    /\ filesBefore' = files
    /\ UNCHANGED <<cities, files, sourceImage, lastOp, initialGoa,
                   serVars, regVars, tripVars>>

\* add_goa_destination: if not City.objects.filter(name='Goa').exists()
MigCheck ==
    /\ migPc = "check"
    /\ IF GoaExists(cities)
       THEN MigFinish("forward")
       ELSE migPc' = "save_city" /\ UNCHANGED lastOp
    /\ UNCHANGED <<cities, files, sourceImage, migCity, citiesBefore, filesBefore,
                   initialGoa, serVars, regVars, tripVars>>

\* add_goa_destination: city = City(name='Goa'); city.save(); then the test
\* os.path.exists(source_image)
MigSaveCity ==
    /\ migPc = "save_city"
    /\ \/ /\ cities' = cities \cup
                 {[id |-> NextId(cities), name |-> "Goa", image |-> FieldFile("")]}
          /\ migCity' = NextId(cities)
          /\ IF sourceImage
             THEN migPc' = "save_image" /\ UNCHANGED lastOp
             ELSE MigFinish("forward")
       \/ \* the insert raises
          /\ MigFinish("forward_failed")
          /\ UNCHANGED <<cities, migCity>>
    /\ UNCHANGED <<files, sourceImage, citiesBefore, filesBefore, initialGoa,
                   serVars, regVars, tripVars>>

\* add_goa_destination: city.image.save('Goa.jpg', File(img_file), save=True)
MigSaveImage ==
    /\ migPc = "save_image"
    /\ \/ /\ files' = files \cup {AvailableName(files)}
          /\ cities' = {IF c.id = migCity
                        THEN [c EXCEPT !.image = FieldFile(AvailableName(files))]
                        ELSE c : c \in cities}
          /\ MigFinish("forward")
       \/ \* the storage or the update raises: the file may have been written,
          \* and the City row stays or goes with the migration's transaction
          /\ \E written \in BOOLEAN :
                 files' = IF written THEN files \cup {AvailableName(files)} ELSE files
          /\ \E rolledBack \in BOOLEAN :
                 cities' = IF rolledBack THEN citiesBefore ELSE cities
          /\ MigFinish("forward_failed")
    /\ UNCHANGED <<sourceImage, migCity, citiesBefore, filesBefore, initialGoa,
                   serVars, regVars, tripVars>>

\* migrate backward: remove_goa_destination
MigReverse ==
    /\ migPc = "idle"
    /\ cities' = DeleteNamed(cities, "Goa")
    /\ citiesBefore' = cities
    /\ filesBefore' = files
    /\ MigFinish("reverse")
    /\ UNCHANGED <<files, sourceImage, migCity, initialGoa,
                   serVars, regVars, tripVars>>

MigNext == MigForward \/ MigCheck \/ MigSaveCity \/ MigSaveImage \/ MigReverse
MigSpec == MigInit /\ [][MigNext]_vars

Max(a, b) == IF a >= b THEN a ELSE b

\* C4: over any sequence of forward and reverse applications run one at a
\* time from any initial City table, a forward application creates a City
\* named "Goa" only when none exists, the number of rows named "Goa" never
\* exceeds max(1, the number present initially), and a forward application
\* that follows a forward application leaves the City table and the file
\* storage unchanged.
C4_ForwardIsIdempotent ==
    /\ [](GoaCount(cities) <= Max(1, initialGoa))
    /\ [][/\ GoaCount(cities') > GoaCount(cities) => GoaCount(cities) = 0
          /\ (lastOp = "forward" /\ migPc # "idle")
                 => (cities' = cities /\ files' = files)]_vars

C4_Witness ==
    /\ migPc = "idle" /\ lastOp = "forward"
    /\ initialGoa = 0
    /\ GoaCount(cities) = 1
    /\ \E c \in cities : c.name = "Goa" /\ c.image.v # ""
    /\ citiesBefore = cities /\ filesBefore = files

\* C5: remove_goa_destination leaves no City row named "Goa", keeps every
\* City row of another name with identical fields, and adds no row.
C5_ReverseRemovesOnlyGoa ==
    [][(migPc = "idle" /\ migPc' = "idle" /\ lastOp' = "reverse") =>
           /\ \A c \in cities' : c.name # "Goa"
           /\ \A c \in cities : c.name # "Goa" => c \in cities'
           /\ cities' \subseteq cities]_vars

C5_Witness ==
    /\ migPc = "idle" /\ lastOp = "reverse"
    /\ GoaCount(citiesBefore) = 2
    /\ GoaCount(cities) = 0
    /\ Cardinality(cities) = 2
    /\ cities \subseteq citiesBefore

====
